---- MODULE Spec2Model ----
(***************************************************************************)
(* Agency claim table generator (src/jabiloldclaim.py).                    *)
(*                                                                         *)
(* The script reconciles a timecard against a masterlist, keeps the        *)
(* records inside each employee's eligibility window, buckets them into    *)
(* 24th-to-23rd claim cycles, decides worked / not worked per day and      *)
(* builds one table and one recruiter summary per cycle.                   *)
(*                                                                         *)
(* Representation choices                                                  *)
(*  - A pandas Timestamp is an integer count of days since 1970-01-01      *)
(*    (the Date and Joined Date columns hold calendar dates); NaT is a     *)
(*    distinguished value outside the range of dates.                      *)
(*  - A string the code inspects character by character (an employee id,   *)
(*    a name) is a sequence of one-character strings.                      *)
(*  - Hours are counted in whole minutes: hour + minute/60 scaled by 60.   *)
(*    A float NaN is the record [nan |-> TRUE, v |-> 0].                   *)
(***************************************************************************)
EXTENDS Integers, Sequences, FiniteSets, TLC

VARIABLES
    pc,             \* how far the main block has run
    hours_per_day,  \* sidebar: minutes considered one workday
    grace_minutes,  \* sidebar: grace window
    day_rate,       \* sidebar: rate per claim day, in sen
    att_file,       \* the uploaded timecard, as read
    mst_file,       \* the uploaded masterlist, as read
    att,            \* the timecard frame
    mst,            \* the masterlist frame
    eligible,       \* the records inside their eligibility window
    daily,          \* one record per group of the daily aggregation
    tables,         \* cycle id -> rows of the cycle table
    summaries,      \* cycle id -> rows of the recruiter summary
    call            \* a helper applied on its own: argument and result

settings == <<hours_per_day, grace_minutes, day_rate>>

uploads == <<att_file, mst_file>>

pipeline == <<pc, settings, uploads, att, mst, eligible, daily, tables, summaries>>

vars == <<pipeline, call>>

(***************************************************************************)
(* Calendar arithmetic of Timestamp / DateOffset                           *)
(***************************************************************************)
Min(a, b) == IF a <= b THEN a ELSE b

Max(a, b) == IF a >= b THEN a ELSE b

IsLeap(y) == (y % 4 = 0 /\ y % 100 # 0) \/ y % 400 = 0

DaysInMonth(y, m) ==
    IF m = 2 THEN (IF IsLeap(y) THEN 29 ELSE 28)
    ELSE IF m \in {4, 6, 9, 11} THEN 30 ELSE 31

\* days of the 400-year era before day doy of year yoe
DayOfEra(yoe, doy) == yoe * 365 + yoe \div 4 - yoe \div 100 + doy

\* yy: the year counted from March, mp: the month counted from March
DaysFromCivil(yy, mp, d) ==
    (yy \div 400) * 146097 + DayOfEra(yy % 400, (153 * mp + 2) \div 5 + d - 1) - 719468

\* Timestamp(year=y, month=m, day=d) as days since 1970-01-01
Ymd(y, m, d) ==
    DaysFromCivil(IF m <= 2 THEN y - 1 ELSE y, IF m > 2 THEN m - 3 ELSE m + 9, d)

CivilYmd(y0, m, d) == [y |-> y0 + (IF m <= 2 THEN 1 ELSE 0), m |-> m, d |-> d]

CivilMp(y0, doy, mp) ==
    CivilYmd(y0, IF mp < 10 THEN mp + 3 ELSE mp - 9, doy - (153 * mp + 2) \div 5 + 1)

CivilDoy(y0, doy) == CivilMp(y0, doy, (5 * doy + 2) \div 153)

CivilYoe(era, doe, yoe) ==
    CivilDoy(yoe + era * 400, doe - (365 * yoe + yoe \div 4 - yoe \div 100))

CivilDoe(era, doe) ==
    CivilYoe(era, doe, (doe - doe \div 1460 + doe \div 36524 - doe \div 146096) \div 365)

CivilEra(z) == CivilDoe(z \div 146097, z % 146097)

\* The (year, month, day) fields of the Timestamp t
Civil(t) == CivilEra(t + 719468)

Year(t) == Civil(t).y

Month(t) == Civil(t).m

Day(t) == Civil(t).d

WithDay(c, n) == Ymd(c.y, c.m, n)

\* Timestamp.replace(day=n)
ReplaceDay(t, n) == WithDay(Civil(t), n)

\* the day is clamped to the length of the target month
ClampDay(y, m, d) == Ymd(y, m, Min(d, DaysInMonth(y, m)))

ShiftTo(k, d) == ClampDay(k \div 12, (k % 12) + 1, d)

ShiftMonths(c, n) == ShiftTo(c.y * 12 + (c.m - 1) + n, c.d)

\* t + pd.DateOffset(months=n)
AddMonths(t, n) == ShiftMonths(Civil(t), n)

\* errors="coerce" yields NaT for a value that does not parse
NaT == -1000000

\* np.nan in a column of strings (a missing cell, a null employee id)
NaN == <<"NaN">>

(***************************************************************************)
(* Helpers (lines 50-93)                                                   *)
(***************************************************************************)
RECURSIVE LStrip(_)
LStrip(s) == IF s # <<>> /\ Head(s) = " " THEN LStrip(Tail(s)) ELSE s

RECURSIVE RStrip(_)
RStrip(s) ==
    IF s # <<>> /\ s[Len(s)] = " " THEN RStrip(SubSeq(s, 1, Len(s) - 1)) ELSE s

\* str.strip()
Strip(s) == RStrip(LStrip(s))

UpperChar(c) == IF c = "a" THEN "A" ELSE IF c = "b" THEN "B" ELSE c

\* str.upper()
Upper(s) == [i \in 1..Len(s) |-> UpperChar(s[i])]

NotSpace(c) == c # " "

\* str.replace(" ", "")
RemoveSpaces(s) == SelectSeq(s, NotSpace)

\* str.endswith(".0")
EndsWithDotZero(s) == Len(s) >= 2 /\ s[Len(s) - 1] = "." /\ s[Len(s)] = "0"

\* lines 50-54
_norm_empid(v) ==
    IF v = NaN THEN NaN
    ELSE LET w == RemoveSpaces(Upper(Strip(v)))
         IN  IF EndsWithDotZero(w) THEN SubSeq(w, 1, Len(w) - 2) ELSE w

_norm_name(v) == IF v = NaN THEN <<>> ELSE Strip(v)

\* A float: a number of minutes, or NaN
Num(n) == [nan |-> FALSE, v |-> n]

FloatNaN == [nan |-> TRUE, v |-> 0]

\* pd.to_datetime(x) raises for an unparseable string; for None it returns
\* None, whose .hour raises AttributeError
Raises(x) == x.kind \in {"bad", "none"}

\* hour + minute / 60 of pd.to_datetime(x); NaT.hour and NaT.minute are nan
HourOf(x) == IF x.kind = "time" THEN Num(60 * x.h + x.m) ELSE FloatNaN

_pair_duration(i, o) ==
    IF Raises(i) \/ Raises(o) THEN Num(0)
    ELSE LET hi == HourOf(i)
             ho == HourOf(o)
         IN  IF hi.nan \/ ho.nan
             THEN FloatNaN          \* ho >= hi is False, ho + 24 - hi is nan
             ELSE IF ho.v >= hi.v THEN Num(ho.v - hi.v)
                  ELSE Num(ho.v + 24 * 60 - hi.v)

CycleRecord(start, end) == [id |-> <<start, end>>, start |-> start, end |-> end]

\* end = (start + pd.DateOffset(months=1)).replace(day=23)
CycleFrom(start) == CycleRecord(start, ReplaceDay(AddMonths(start, 1), 23))

\* A plausible slip: the previous month is taken only after the 24th.
ClaimCycleInfoOffByOne(d) ==
    CycleFrom(IF Day(d) > 24 THEN ReplaceDay(d, 24)
              ELSE ReplaceDay(AddMonths(d, -1), 24))

\* The cycle id f"{start.date()}_to_{end.date()}" is the pair <<start, end>>.
claim_cycle_info(d) ==
    CycleFrom(IF Day(d) >= 24 THEN ReplaceDay(d, 24)
              ELSE ReplaceDay(AddMonths(d, -1), 24))

\* A plausible slip: a fixed 90 days instead of three calendar months.
EligibleEnd90(join) == join + 90 - 1

\* JOIN_DATE + pd.DateOffset(months=3) - pd.Timedelta(days=1)
EligibleEnd(join) == AddMonths(join, 3) - 1

\* A plausible slip: the end of the window is not checked.
InWindowNoEnd(date, join) == date >= join

\* (__Date >= JOIN_DATE) & (__Date <= ELIGIBLE_END)
InWindow(date, join) == date >= join /\ date <= EligibleEnd(join)

(***************************************************************************)
(* The main block (lines 97-213)                                           *)
(***************************************************************************)
RECURSIVE SumFn(_)
\* Series.sum(): the sum of the values of a function with a finite domain
SumFn(f) ==
    IF DOMAIN f = {} THEN 0
    ELSE LET x == CHOOSE x \in DOMAIN f : TRUE
         IN  f[x] + SumFn([y \in DOMAIN f \ {x} |-> f[y]])

RECURSIVE Keep(_, _)
\* frame[mask]: the rows whose mask is true, in order
Keep(seq, mask) ==
    IF seq = <<>> THEN <<>>
    ELSE LET rest == Keep(Tail(seq), [i \in 1..(Len(seq) - 1) |-> mask[i + 1]])
         IN  IF mask[1] THEN <<Head(seq)>> \o rest ELSE rest

\* effective_threshold (line 32), in minutes
effective_threshold == Max(0, hours_per_day - grace_minutes)

\* A date cell is text pd.to_datetime reads as the date v ("date"), a bare
\* whole number v it does not read ("serial"), or anything else ("bad").
_parse_dates(s) ==
    IF s.kind = "date" THEN s.v
    ELSE IF s.kind = "serial" THEN Ymd(1899, 12, 30) + s.v
    ELSE NaT

\* pd.to_datetime(mst[m_join], errors="coerce")
ParseJoin(s) == IF s.kind = "date" THEN s.v ELSE NaT

LowerWord(w) == IF w = "MC" THEN "mc" ELSE IF w = "Leave" THEN "leave" ELSE w

LeaveKeywords == {"leave", "mc", "medical", "sick", "absent", "unpaid"}

\* A leave cell is a sequence of words; a missing cell reads "nan".
_is_leave(v) ==
    IF v = NaN THEN FALSE
    ELSE \E i \in 1..Len(v) : LowerWord(v[i]) \in LeaveKeywords

\* lines 120-125
NormalizedRow(r) ==
    [__Date  |-> _parse_dates(r.Date),
     __EmpID |-> _norm_empid(r.EmpNo),
     __Name  |-> _norm_name(r.Name),
     __Leave |-> _is_leave(r.Leave),
     __Hours |-> _pair_duration(r.t_in, r.t_out)]

Normalized(file) ==
    LET rows == [i \in 1..Len(file) |-> NormalizedRow(file[i])]
    IN  Keep(rows, [i \in 1..Len(file) |-> rows[i].__Date # NaT])

\* lines 127-128
MasterRow(m) ==
    [EmpNo |-> _norm_empid(m.EmpNo), Joined |-> ParseJoin(m.Joined),
     Recruiter |-> m.Recruiter]

\* dict(zip(keys, values)) then Series.map: the last entry of a key wins, a
\* key that is absent maps to the missing value
MapLookup(m, id, field, missing) ==
    LET at == {i \in 1..Len(m) : m[i].EmpNo = id}
    IN  IF at = {} THEN missing
        ELSE m[CHOOSE i \in at : \A k \in at : k <= i][field]

\* lines 133-149 for one record
EligibleRow(r, m) ==
    LET join == MapLookup(m, r.__EmpID, "Joined", NaT)
        c    == claim_cycle_info(r.__Date)
    IN  [__EmpID |-> r.__EmpID, __Name |-> r.__Name, __Date |-> r.__Date,
         __Leave |-> r.__Leave, __Hours |-> r.__Hours,
         JOIN_DATE |-> join,
         Recruiter |-> MapLookup(m, r.__EmpID, "Recruiter", NaN),
         ELIGIBLE_END |-> IF join = NaT THEN NaT ELSE EligibleEnd(join),
         CLAIM_CYCLE |-> c.id, CYCLE_START |-> c.start, CYCLE_END |-> c.end]

Eligible(a, m) ==
    LET rows == [i \in 1..Len(a) |-> EligibleRow(a[i], m)]
    IN  Keep(rows, [i \in 1..Len(a) |->
                       /\ rows[i].JOIN_DATE # NaT
                       /\ InWindow(rows[i].__Date, rows[i].JOIN_DATE)])

\* the grouping key of the daily aggregation (lines 153-156)
DailyKey(r) ==
    [__EmpID |-> r.__EmpID, __Name |-> r.__Name, JOIN_DATE |-> r.JOIN_DATE,
     ELIGIBLE_END |-> r.ELIGIBLE_END, Recruiter |-> r.Recruiter,
     __Date |-> r.__Date, CLAIM_CYCLE |-> r.CLAIM_CYCLE,
     CYCLE_START |-> r.CYCLE_START, CYCLE_END |-> r.CYCLE_END]

\* groupby drops a row with a missing value in a key column (dropna=True);
\* the other key columns are never missing here
Grouped(r) == r.__EmpID # NaN /\ r.Recruiter # NaN

\* A plausible slip: leave is ignored.
WorkedDayIgnoringLeave(any_leave, total_hours) ==
    IF total_hours >= effective_threshold THEN 1 ELSE 0

\* lines 164-167
WorkedDay(any_leave, total_hours) ==
    IF any_leave THEN 0
    ELSE IF total_hours >= effective_threshold THEN 1 ELSE 0

\* sum skips NaN; max of the leave flags
DailyRecord(k, e) ==
    LET members == {i \in 1..Len(e) : Grouped(e[i]) /\ DailyKey(e[i]) = k}
        total   == SumFn([i \in members |->
                             IF e[i].__Hours.nan THEN 0 ELSE e[i].__Hours.v])
        leave   == \E i \in members : e[i].__Leave
    IN  [__EmpID |-> k.__EmpID, __Name |-> k.__Name, JOIN_DATE |-> k.JOIN_DATE,
         ELIGIBLE_END |-> k.ELIGIBLE_END, Recruiter |-> k.Recruiter,
         __Date |-> k.__Date, CLAIM_CYCLE |-> k.CLAIM_CYCLE,
         CYCLE_START |-> k.CYCLE_START, CYCLE_END |-> k.CYCLE_END,
         Total_Hours |-> total, Any_Leave |-> leave,
         Worked_Day |-> WorkedDay(leave, total)]

\* lines 152-167
Daily(e) ==
    {DailyRecord(k, e) : k \in {DailyKey(e[i]) : i \in {j \in 1..Len(e) : Grouped(e[j])}}}

\* strftime("%d-%b"): the day and the month, without the year
Label(d) == <<Day(d), Month(d)>>

BaseKey(r) ==
    [EmpNo |-> r.__EmpID, Name |-> r.__Name, JOIN_DATE |-> r.JOIN_DATE,
     ELIGIBLE_END |-> r.ELIGIBLE_END, Recruiter |-> r.Recruiter]

\* A plausible slip: the cell update matches on the employee id alone.
PatchMatchesIdOnly(row, r) == row.EmpNo = r.__EmpID

\* (base["__EmpID"] == r["__EmpID"]) & (base["__Name"] == r["__Name"])
PatchMatches(row, r) == row.EmpNo = r.__EmpID /\ row.Name = r.__Name

RECURSIVE Patched(_, _)
\* lines 192-198: one record of the cycle at a time, the cell it names
\* is overwritten (and created when the column does not exist)
Patched(row, recs) ==
    IF recs = {} THEN row
    ELSE LET r == CHOOSE r \in recs : TRUE
             next == IF PatchMatches(row, r)
                     THEN [row EXCEPT !.cells = (Label(r.__Date) :> r.Worked_Day) @@ @]
                     ELSE row
         IN  Patched(next, recs \ {r})

\* lines 173-208 for one cycle
CycleTable(dcy) ==
    LET first  == CHOOSE r \in dcy : TRUE
        days   == first.CYCLE_START .. first.CYCLE_END
        labels == {Label(d) : d \in days}
        base(k) ==
            LET grp == {r \in dcy : BaseKey(r) = k}
            IN  [EmpNo |-> k.EmpNo, Name |-> k.Name, JOIN_DATE |-> k.JOIN_DATE,
                 ELIGIBLE_END |-> k.ELIGIBLE_END, Recruiter |-> k.Recruiter,
                 cells |-> [l \in labels |-> 0],
                 TOTAL_WORKING |-> SumFn([r \in grp |-> r.Worked_Day]),
                 Total_Hours |-> SumFn([r \in grp |-> r.Total_Hours])]
    IN  {Patched(base(k), dcy) : k \in {BaseKey(r) : r \in dcy}}

\* A plausible slip: the amount is taken per row instead of per worked day.
RecruiterSummaryPerRow(table) ==
    {[Recruiter |-> rec,
      TOTAL_WORKING |-> SumFn([row \in {x \in table : x.Recruiter = rec} |-> row.TOTAL_WORKING]),
      Rate |-> day_rate,
      Amount |-> Cardinality({x \in table : x.Recruiter = rec}) * day_rate]
     : rec \in {row.Recruiter : row \in table}}

\* lines 210-213
RecruiterSummary(table) ==
    {LET total == SumFn([row \in {x \in table : x.Recruiter = rec} |-> row.TOTAL_WORKING])
     IN  [Recruiter |-> rec, TOTAL_WORKING |-> total,
          Rate |-> day_rate, Amount |-> total * day_rate]
     : rec \in {row.Recruiter : row \in table}}

Cycles(d) == {r.CLAIM_CYCLE : r \in d}

NoCall == [fn |-> "none", arg |-> <<>>, done |-> TRUE, ret |-> <<>>]

\* ---- the steps of one run of the script
LoadAndNormalize ==
    /\ pc = "start"
    /\ att' = Normalized(att_file)
    /\ mst' = [i \in 1..Len(mst_file) |-> MasterRow(mst_file[i])]
    /\ pc' = "normalized"
    /\ UNCHANGED <<settings, uploads, eligible, daily, tables, summaries, call>>

JoinAndFilter ==
    /\ pc = "normalized"
    /\ eligible' = Eligible(att, mst)
    /\ pc' = "eligible"
    /\ UNCHANGED <<settings, uploads, att, mst, daily, tables, summaries, call>>

DailyAggregation ==
    /\ pc = "eligible"
    /\ daily' = Daily(eligible)
    /\ pc' = "daily"
    /\ UNCHANGED <<settings, uploads, att, mst, eligible, tables, summaries, call>>

BuildCycleTables ==
    /\ pc = "daily"
    /\ tables' = [cyc \in Cycles(daily) |->
                     CycleTable({r \in daily : r.CLAIM_CYCLE = cyc})]
    /\ summaries' = [cyc \in Cycles(daily) |-> RecruiterSummary(tables'[cyc])]
    /\ pc' = "done"
    /\ UNCHANGED <<settings, uploads, att, mst, eligible, daily, call>>

Next == LoadAndNormalize \/ JoinAndFilter \/ DailyAggregation \/ BuildCycleTables

(***************************************************************************)
(* Uploads and settings the runs are checked on                            *)
(***************************************************************************)
MaxRows == 2

DateCell(y, m, d) == [kind |-> "date", v |-> Ymd(y, m, d)]

\* 45346 is 2024-02-24 as a spreadsheet serial number
SerialCell == [kind |-> "serial", v |-> Ymd(2024, 2, 24) - Ymd(1899, 12, 30)]

BadCell == [kind |-> "bad", v |-> 0]

Clock(h, m) == [kind |-> "time", h |-> h, m |-> m]

Missing == [kind |-> "nat", h |-> 0, m |-> 0]

TimecardRow(emp, name, date, i, o, leave) ==
    [EmpNo |-> emp, Name |-> name, Date |-> date, t_in |-> i, t_out |-> o,
     Leave |-> leave]

MasterlistRow(emp, joined, rec) ==
    [EmpNo |-> emp, Joined |-> joined, Recruiter |-> rec]

SeqsUpTo(S, n) == UNION {[1..k -> S] : k \in 0..n}

\* A1 joined 2023-11-24, so its window closes on 2024-02-23; B2 joined
\* 2024-02-23.  The timecard dates are 22 and 23 Feb 2024, both in the cycle
\* 24 Jan - 23 Feb, and 24 Feb, which opens the next cycle, is the day after
\* A1's window closes and comes as a spreadsheet serial number.
JoinA == DateCell(2023, 11, 24)

JoinB == DateCell(2024, 2, 23)

Masterlists ==
    { <<MasterlistRow(<<"A", "1", " ">>, JoinA, <<"R", "1">>),
        MasterlistRow(<<"b", "2">>, JoinB, <<"R", "1">>)>>,
      <<MasterlistRow(<<"A", "1", " ">>, JoinA, NaN),
        MasterlistRow(<<"b", "2">>, JoinB, <<"R", "2">>)>>,
      <<MasterlistRow(<<"A", "1">>, JoinB, <<"R", "2">>),
        MasterlistRow(<<"A", "1">>, JoinA, <<"R", "1">>),
        MasterlistRow(NaN, JoinB, <<"R", "2">>)>>,
      <<MasterlistRow(<<"A", "1">>, BadCell, <<"R", "1">>),
        MasterlistRow(<<"B", "2">>, JoinB, <<"R", "2">>)>> }

FullDay == <<Clock(8, 0), Clock(17, 0)>>

\* an overnight shift of four hours
NightShift == <<Clock(22, 0), Clock(2, 0)>>

TimecardDates == {DateCell(2024, 2, 22), DateCell(2024, 2, 23), SerialCell}

TimecardRows ==
    { TimecardRow(emp, name, date, p[1], p[2], NaN) :
        emp  \in {<<"a", "1", " ">>, <<"B", "2", ".", "0">>},
        name \in {<<"A", "n">>, <<"B", "o", " ">>},
        date \in TimecardDates,
        p    \in {FullDay, NightShift} }
    \cup { TimecardRow(NaN, <<"A", "n">>, DateCell(2024, 2, 23), Clock(8, 0), Clock(17, 0), NaN),
           TimecardRow(<<"a", "1", " ">>, NaN, BadCell, Clock(8, 0), Clock(17, 0), NaN) }

Init ==
    /\ pc = "start"
    /\ hours_per_day = 480 /\ grace_minutes = 15 /\ day_rate = 300
    /\ att_file \in SeqsUpTo(TimecardRows, MaxRows)
    /\ mst_file \in Masterlists
    /\ att = <<>> /\ mst = <<>> /\ eligible = <<>>
    /\ daily = {} /\ tables = <<>> /\ summaries = <<>>
    /\ call = NoCall

Spec == Init /\ [][Next]_vars

\* ---- one employee, several punches a day, leave cells, three thresholds
PunchRows ==
    { TimecardRow(<<"a", "1", " ">>, <<"A", "n">>, date, p[1], p[2], leave) :
        date  \in {DateCell(2024, 2, 22), DateCell(2024, 2, 23)},
        p     \in {<<Clock(8, 0), Clock(15, 48)>>, <<Clock(8, 0), Clock(15, 42)>>,
                   NightShift, <<Missing, Clock(17, 0)>>},
        leave \in {NaN, <<"MC">>} }

\* (hours per day, grace): 8 h less 15 min; 1 h less 120 min; 4 h, no grace
Thresholds == {<<480, 15>>, <<60, 120>>, <<240, 0>>}

InitDaily ==
    /\ pc = "start"
    /\ \E t \in Thresholds : hours_per_day = t[1] /\ grace_minutes = t[2]
    /\ day_rate = 300
    /\ att_file \in SeqsUpTo(PunchRows, MaxRows)
    /\ mst_file = <<MasterlistRow(<<"A", "1", " ">>, JoinA, <<"R", "1">>)>>
    /\ att = <<>> /\ mst = <<>> /\ eligible = <<>>
    /\ daily = {} /\ tables = <<>> /\ summaries = <<>>
    /\ call = NoCall

SpecDaily == InitDaily /\ [][Next]_vars

(***************************************************************************)
(* The helpers applied to inputs drawn from bounded sets                   *)
(***************************************************************************)
MaxYears == 2

MaxOffset == 93

MaxLen == 4

\* The pipeline has not been started.
PipelineIdle ==
    /\ pc = "idle"
    /\ hours_per_day = 0 /\ grace_minutes = 0 /\ day_rate = 0
    /\ att_file = <<>> /\ mst_file = <<>>
    /\ att = <<>> /\ mst = <<>>
    /\ eligible = <<>> /\ daily = {} /\ tables = <<>> /\ summaries = <<>>

\* ---- claim_cycle_info over every date of a few years, leap year included
CycleDates == Ymd(2023, 1, 1) .. Ymd(2023 + MaxYears, 12, 31)

InitCycle ==
    /\ PipelineIdle
    /\ \E d \in CycleDates :
          call = [fn |-> "claim_cycle_info", arg |-> d, done |-> FALSE,
                  ret |-> [id |-> <<0, 0>>, start |-> 0, end |-> 0]]

CallCycle ==
    /\ call.fn = "claim_cycle_info" /\ ~call.done
    /\ call' = [call EXCEPT !.done = TRUE, !.ret = claim_cycle_info(call.arg)]
    /\ UNCHANGED pipeline

SpecCycle == InitCycle /\ [][CallCycle]_vars

\* ---- the eligibility window of one record (lines 138-143)
JoinDates == Ymd(2023, 11, 1) .. Ymd(2024, 12, 31)

InitEligible ==
    /\ PipelineIdle
    /\ \E j \in JoinDates, k \in -1 .. MaxOffset :
          call = [fn |-> "eligibility", arg |-> [join |-> j, date |-> j + k],
                  done |-> FALSE, ret |-> [ELIGIBLE_END |-> 0, kept |-> FALSE]]

CallEligible ==
    /\ call.fn = "eligibility" /\ ~call.done
    /\ call' = [call EXCEPT !.done = TRUE,
                            !.ret = [ELIGIBLE_END |-> EligibleEnd(call.arg.join),
                                     kept |-> InWindow(call.arg.date, call.arg.join)]]
    /\ UNCHANGED pipeline

SpecEligible == InitEligible /\ [][CallEligible]_vars

\* ---- _pair_duration over parseable, missing and malformed timestamps
Times == [kind : {"time"}, h : {0, 8, 17, 23}, m : {0, 15, 30}]

\* "nat": a missing cell (NaN) or an empty string, which pd.to_datetime turns
\* into NaT; "bad": text that is no timestamp; "none": Python None
TimeTokens ==
    Times \cup [kind : {"nat", "bad", "none"}, h : {0}, m : {0}]

InitDuration ==
    /\ PipelineIdle
    /\ \E i \in TimeTokens, o \in TimeTokens :
          call = [fn |-> "_pair_duration", arg |-> [i |-> i, o |-> o],
                  done |-> FALSE, ret |-> Num(0)]

CallDuration ==
    /\ call.fn = "_pair_duration" /\ ~call.done
    /\ call' = [call EXCEPT !.done = TRUE,
                            !.ret = _pair_duration(call.arg.i, call.arg.o)]
    /\ UNCHANGED pipeline

SpecDuration == InitDuration /\ [][CallDuration]_vars

\* ---- _norm_empid over short strings and the null value
Alphabet == {"a", "A", "1", "0", ".", " "}

RECURSIVE StringsUpTo(_)
StringsUpTo(n) ==
    IF n = 0 THEN {<<>>}
    ELSE LET shorter == StringsUpTo(n - 1)
         IN  shorter \cup {Append(s, c) : s \in shorter, c \in Alphabet}

InitNorm ==
    /\ PipelineIdle
    /\ \E v \in StringsUpTo(MaxLen) \cup {NaN} :
          call = [fn |-> "_norm_empid", arg |-> v, done |-> FALSE, ret |-> <<>>]

CallNorm ==
    /\ call.fn = "_norm_empid" /\ ~call.done
    /\ call' = [call EXCEPT !.done = TRUE, !.ret = _norm_empid(call.arg)]
    /\ UNCHANGED pipeline

SpecNorm == InitNorm /\ [][CallNorm]_vars

(***************************************************************************)
(* C1  claim_cycle_info(d) returns a cycle that starts on the 24th of a    *)
(* month, ends on the 23rd of the following month and contains d; the      *)
(* cycles returned for any two dates are identical or disjoint.            *)
(***************************************************************************)
FollowingMonth(s, e) ==
    Year(e) * 12 + Month(e) = Year(s) * 12 + Month(s) + 1

ThreeMonthsAfter(j, t) ==
    /\ Year(t) * 12 + Month(t) = Year(j) * 12 + Month(j) + 3
    /\ Day(t) = Min(Day(j), DaysInMonth(Year(t), Month(t)))

C2_EligibilityWindow ==
    (call.fn = "eligibility" /\ call.done) =>
        LET j == call.arg.join
            d == call.arg.date
            e == call.ret.ELIGIBLE_END
        IN  /\ ThreeMonthsAfter(j, e + 1)
            /\ (j = Ymd(2024, 1, 15) => e = Ymd(2024, 4, 14))
            /\ call.ret.kept <=> (j <= d /\ d <= e)
            /\ (d = j => call.ret.kept)
            /\ (d = e => call.ret.kept)
            /\ (d = e + 1 => ~call.ret.kept)
            /\ (d = j - 1 => ~call.ret.kept)

\* the record dated exactly the last day of the window of 2024-01-15
C2_Witness ==
    /\ call.fn = "eligibility" /\ call.done
    /\ call.arg.join = Ymd(2024, 1, 15)
    /\ call.arg.date = Ymd(2024, 4, 14)
    /\ call.ret.kept

(***************************************************************************)
(* C7  _pair_duration returns exactly 0.0 whenever either timestamp fails  *)
(* to parse, a missing timestamp included, and never returns NaN.          *)
(***************************************************************************)
Parses(x) == x.kind = "time"

C7_DurationFailSoft ==
    (call.fn = "_pair_duration" /\ call.done) =>
        /\ ~call.ret.nan
        /\ call.ret.v >= 0
        /\ (~Parses(call.arg.i) \/ ~Parses(call.arg.o)) => call.ret = Num(0)

(***************************************************************************)
(* C8  _norm_empid returns null for null; otherwise the input trimmed,     *)
(* uppercased and without spaces, with a trailing ".0" removed only when   *)
(* what precedes it is a number; a non-numeric id is never shortened.      *)
(***************************************************************************)
IsDigits(s) == s # <<>> /\ \A i \in 1..Len(s) : s[i] \in {"0", "1"}

NumericDotZero(s) == EndsWithDotZero(s) /\ IsDigits(SubSeq(s, 1, Len(s) - 2))

C8_NormEmpid ==
    (call.fn = "_norm_empid" /\ call.done) =>
        IF call.arg = NaN THEN call.ret = NaN
        ELSE LET w == RemoveSpaces(Upper(Strip(call.arg)))
             IN  IF NumericDotZero(w)
                 THEN call.ret = SubSeq(w, 1, Len(w) - 2)
                 ELSE call.ret = w

(***************************************************************************)
(* C3  No output table is influenced by an ineligible record: every row    *)
(* belongs to an employee id that matches a masterlist entry with a        *)
(* resolvable join date, and every day cell equal to 1, every worked day   *)
(* of TOTAL_WORKING and every minute of Total_Hours comes from timecard    *)
(* records dated inside that employee's window and inside the table's      *)
(* cycle.                                                                  *)
(***************************************************************************)
Minutes(r) ==
    LET h == _pair_duration(r.t_in, r.t_out) IN IF h.nan THEN 0 ELSE h.v

\* timecard record r counts for this row of the table of cycle cyc
Contributes(r, row, cyc) ==
    LET d == _parse_dates(r.Date)
    IN  /\ _norm_empid(r.EmpNo) = row.EmpNo
        /\ _norm_name(r.Name) = row.Name
        /\ d # NaT
        /\ row.JOIN_DATE <= d /\ d <= row.ELIGIBLE_END
        /\ cyc[1] <= d /\ d <= cyc[2]

C3_OnlyEligibleRecords ==
    pc = "done" =>
        \A cyc \in DOMAIN tables : \A row \in tables[cyc] :
            LET src == {i \in 1..Len(att_file) : Contributes(att_file[i], row, cyc)}
            IN  /\ row.EmpNo # NaN
                /\ row.JOIN_DATE # NaT
                /\ \E i \in 1..Len(mst_file) :
                      /\ _norm_empid(mst_file[i].EmpNo) = row.EmpNo
                      /\ ParseJoin(mst_file[i].Joined) = row.JOIN_DATE
                /\ ThreeMonthsAfter(row.JOIN_DATE, row.ELIGIBLE_END + 1)
                /\ \A l \in DOMAIN row.cells :
                      row.cells[l] = 1 =>
                          \E i \in src : Label(_parse_dates(att_file[i].Date)) = l
                /\ row.TOTAL_WORKING <=
                      Cardinality({_parse_dates(att_file[i].Date) : i \in src})
                /\ row.Total_Hours = SumFn([i \in src |-> Minutes(att_file[i])])

\* A1 has a full day inside its window and a record the day after it closed
C3_Witness ==
    /\ pc = "done"
    /\ \E i \in 1..Len(att_file) :
          /\ _norm_empid(att_file[i].EmpNo) = <<"A", "1">>
          /\ _parse_dates(att_file[i].Date) = Ymd(2024, 2, 24)
    /\ \E cyc \in DOMAIN tables : \E row \in tables[cyc] :
          /\ row.EmpNo = <<"A", "1">>
          /\ row.ELIGIBLE_END = Ymd(2024, 2, 23)
          /\ row.TOTAL_WORKING = 1

(***************************************************************************)
(* C4  After the daily aggregation there is at most one DailyWorkRecord    *)
(* per canonical employee id and calendar date, whatever the names on the  *)
(* timecard rows.                                                          *)
(***************************************************************************)
C4_OneRecordPerEmployeeDay ==
    pc \in {"daily", "done"} =>
        \A r1 \in daily, r2 \in daily :
            (r1.__EmpID = r2.__EmpID /\ r1.__Date = r2.__Date) => r1 = r2

(***************************************************************************)
(* C5  Worked_Day is 0 whenever any contributing record is flagged as      *)
(* leave; otherwise it is 1 exactly when Total_Hours, the sum of the hours *)
(* of the records of that day, reaches max(0, hours_per_day - grace), and  *)
(* 0 otherwise (threshold 7.75 h: 7.8 h gives 1, 7.7 h gives 0).           *)
(***************************************************************************)
C5_WorkedDay ==
    pc \in {"daily", "done"} =>
        \A r \in daily :
            LET of == {i \in 1..Len(eligible) :
                          /\ eligible[i].__EmpID = r.__EmpID
                          /\ eligible[i].__Name = r.__Name
                          /\ eligible[i].__Date = r.__Date}
                hours == SumFn([i \in of |-> IF eligible[i].__Hours.nan THEN 0
                                             ELSE eligible[i].__Hours.v])
                threshold == IF hours_per_day - grace_minutes > 0
                             THEN hours_per_day - grace_minutes ELSE 0
            IN  /\ of # {}
                /\ r.Total_Hours = hours
                /\ r.Any_Leave <=> \E i \in of : eligible[i].__Leave
                /\ r.Any_Leave => r.Worked_Day = 0
                /\ (~r.Any_Leave /\ r.Total_Hours >= threshold) => r.Worked_Day = 1
                /\ (~r.Any_Leave /\ r.Total_Hours < threshold) => r.Worked_Day = 0
                /\ (hours_per_day = 480 /\ grace_minutes = 15 /\ ~r.Any_Leave) =>
                      /\ r.Total_Hours = 468 => r.Worked_Day = 1
                      /\ r.Total_Hours = 462 => r.Worked_Day = 0

\* a day on leave with enough hours logged
C5_Witness ==
    /\ pc = "daily"
    /\ \E r \in daily :
          r.Any_Leave /\ r.Total_Hours >= effective_threshold /\ r.Worked_Day = 0

(***************************************************************************)
(* C6  Every employee with an eligible record dated in a cycle has exactly *)
(* one row in that cycle's table, and the row has a column holding 0 or 1  *)
(* for every date of the cycle.                                            *)
(***************************************************************************)
HasEligibleRecord(r) ==
    LET d    == _parse_dates(r.Date)
        id   == _norm_empid(r.EmpNo)
        join == MapLookup(mst, id, "Joined", NaT)
    IN  d # NaT /\ id # NaN /\ join # NaT /\ join <= d /\ d <= AddMonths(join, 3) - 1

C6_OneFullRowPerEmployee ==
    pc = "done" =>
        \A i \in 1..Len(att_file) :
            HasEligibleRecord(att_file[i]) =>
                LET id  == _norm_empid(att_file[i].EmpNo)
                    cyc == claim_cycle_info(_parse_dates(att_file[i].Date)).id
                IN  /\ cyc \in DOMAIN tables
                    /\ Cardinality({row \in tables[cyc] : row.EmpNo = id}) = 1
                    /\ \A row \in tables[cyc] : \A d \in cyc[1]..cyc[2] :
                          /\ Label(d) \in DOMAIN row.cells
                          /\ row.cells[Label(d)] \in {0, 1}

====
